---- MODULE Spec2Model ----
(***************************************************************************)
(* TrafegoDNS, DNS record reconciliation core.                             *)
(*                                                                         *)
(* Part 1: the Technitium provider (providers/technitium/provider.js,      *)
(*         converter.js, validator.js): record cache, createRecord,        *)
(*         updateRecord (delete + create), deleteRecord and the batch      *)
(*         convergence batchEnsureRecords, against a Technitium backend.   *)
(* Part 2: the public IP resolver of ConfigManager: ipCache, the           *)
(*         ipUpdateInProgress flag, updatePublicIPs and its callers.       *)
(*                                                                         *)
(* An async function is modelled by one action per synchronous segment:    *)
(* the code from one await to the next runs atomically (one JS event-loop  *)
(* turn), the answer of the awaited call is the input of the next segment. *)
(***************************************************************************)
EXTENDS Integers, Sequences, FiniteSets, TLC

VARIABLES
  now,        \* Date.now(), in units of one refresh interval
  backend,    \* the zone's records as the Technitium server holds them (list order)
  recordCache,\* this.recordCache of the provider: [records, lastUpdated]
  inv,        \* the batchEnsureRecords invocations, one record per invocation slot
  last,       \* the last completed invocation: its desired set and how it went
  desired,    \* the desired record set the poll loop hands to batchEnsureRecords
  ipUpdateInProgress, \* the module-level semaphore of the IP resolver
  ipCache,    \* this.ipCache of the ConfigManager: [ipv4, ipv6, lastCheck]
  env,        \* process.env: PUBLIC_IP, PUBLIC_IPV6, IP_REFRESH_INTERVAL
  calls,      \* the calls of the resolver's entry points, one record per call
  nextFire    \* when the periodic refresh timer is due next

provVars == <<backend, recordCache, inv, last, desired>>
ipVars == <<ipUpdateInProgress, ipCache, env, calls, nextFire>>

----------------------------------------------------------------------------
(* Bounds of the model *)

MaxBatch == 2      \* longest desired set handed to batchEnsureRecords
MaxNow == 1        \* the clock stops here

(* cacheRefreshInterval (DNS_CACHE_REFRESH_INTERVAL), in clock ticks: the cache is *)
(* stale once more than this many ticks have passed since lastUpdated              *)
cacheRefreshInterval == 0

----------------------------------------------------------------------------
(* JavaScript values.  A record's content is a string when it comes from a  *)
(* desired spec; convertToStandardFormat may leave the whole rData object   *)
(* in it.  "" stands for a missing (undefined) string, 0 for a missing      *)
(* number: the code only ever tests them for truthiness.                    *)

NoRData == [ipAddress |-> "", cname |-> "", text |-> "", exchange |-> "", preference |-> 0]

Str(s) == [t |-> "string", s |-> s, o |-> NoRData]
Obj(o) == [t |-> "object", s |-> "", o |-> o]

Truthy(v) == v.t = "object" \/ v.s # ""

(* a === b: two strings with the same characters; an object is only === itself, *)
(* and an rData object of a list response is never the content of a spec.       *)
StrictEq(a, b) == a.t = "string" /\ b.t = "string" /\ a.s = b.s

(* String(v), as URLSearchParams applies it to every value *)
ToStr(v) == IF v.t = "string" THEN v.s ELSE "[object Object]"

(* a || b on strings *)
Or(a, b) == IF a # "" THEN a ELSE b

----------------------------------------------------------------------------
(* converter.js *)

(* convertToTechnitiumFormat(record): the type-specific key carries the content *)
convertToTechnitiumFormat(record) ==
  LET content == ToStr(record.content) IN
  [ domain     |-> record.name,
    type       |-> record.type,
    ttl        |-> IF record.ttl # 0 THEN record.ttl ELSE 3600,
    ipAddress  |-> IF record.type \in {"A", "AAAA"} THEN content ELSE "",
    cname      |-> IF record.type \in {"CNAME", "ANAME"} THEN content ELSE "",
    text       |-> IF record.type = "TXT" THEN content ELSE "",
    exchange   |-> IF record.type = "MX" THEN content ELSE "",
    preference |-> IF record.type = "MX"
                   THEN (IF record.priority # 0 THEN record.priority ELSE 10)
                   ELSE 0 ]

(* id of convertToStandardFormat: name-type-(ipAddress || cname || 'data') *)
RecordId(techRecord) ==
  <<techRecord.name, techRecord.type,
    Or(techRecord.rData.ipAddress, Or(techRecord.rData.cname, "data"))>>

(* convertToStandardFormat(techRecord) *)
convertToStandardFormat(techRecord) ==
  LET rData == techRecord.rData
      s == Or(rData.ipAddress, Or(rData.cname, rData.text))
  IN [ id       |-> RecordId(techRecord),
       type     |-> techRecord.type,
       name     |-> techRecord.name,
       content  |-> IF s # "" THEN Str(s) ELSE Obj(rData),
       ttl      |-> techRecord.ttl,
       priority |-> 0,
       original |-> techRecord ]

(* getRecordContent(record) of validator.js: the content a wire record stands for *)
getRecordContent(record) ==
  LET rData == record.rData IN
  CASE record.type \in {"A", "AAAA"} -> rData.ipAddress
    [] record.type = "CNAME"         -> rData.cname
    [] record.type = "MX"            -> rData.exchange
    [] record.type = "TXT"           -> rData.text
    [] OTHER                         -> ""

----------------------------------------------------------------------------
(* validator.js, validateRecord(record): the message of the Error it throws, *)
(* "" when it returns                                                          *)
(* a validateRecord without the check of record.content *)
ValidationErrorNoContent(record) ==
  IF record.type = "" THEN "Record type is required"
  ELSE IF record.name = "" THEN "Record name is required"
  ELSE IF record.ttl # 0 /\ record.ttl < 0 THEN "TTL must be a positive integer"
  ELSE ""

ValidationError(record) ==
  IF record.type = "" THEN "Record type is required"
  ELSE IF record.name = "" THEN "Record name is required"
  ELSE IF ~Truthy(record.content) THEN "Record content is required"
  ELSE IF record.ttl # 0 /\ record.ttl < 0 THEN "TTL must be a positive integer"
  ELSE ""

validateRecord(record) == ValidationError(record) = ""

(* validator.js also holds the earlier TechnitiumProvider class with its own *)
(* validateRecord(hostname, type, content), which no createRecord calls.     *)

(* the zone the provider is configured for (TECHNITIUM_ZONE) *)
Zone == "example.com"

(* ip.split('.') and parseInt, for the addresses that occur as record content: *)
(* the four numbers of a dotted quad of 1 to 3 digits each, <<>> for a text    *)
(* the pattern /^(\d{1,3}\.){3}\d{1,3}$/ does not match                         *)
Octets(ip) ==
  CASE ip = "1.2.3.4"   -> <<1, 2, 3, 4>>
    [] ip = "5.6.7.8"   -> <<5, 6, 7, 8>>
    [] ip = "999.1.1.1" -> <<999, 1, 1, 1>>
    [] OTHER            -> <<>>

isValidIPv4(ip) ==
  LET parts == Octets(ip)
  IN Len(parts) = 4 /\ \A i \in 1..4 : parts[i] >= 0 /\ parts[i] <= 255

(* how an address text reads against the pattern of isValidIPv6: the groups *)
(* before a "::", whether there is a "::", the groups after it; hex says    *)
(* that every group is 1 to 4 hex digits                                    *)
Groups(ip) ==
  CASE ip = "2001:db8:0:0:0:0:0:1" -> [head |-> 8, gap |-> FALSE, tail |-> 0, hex |-> TRUE]
    [] ip = "2001:db8::1"          -> [head |-> 2, gap |-> TRUE, tail |-> 1, hex |-> TRUE]
    [] ip = "2001:db8::zz"         -> [head |-> 2, gap |-> TRUE, tail |-> 1, hex |-> FALSE]
    [] ip = "::1"                  -> [head |-> 0, gap |-> TRUE, tail |-> 1, hex |-> TRUE]
    [] OTHER                       -> [head |-> 0, gap |-> FALSE, tail |-> 0, hex |-> FALSE]

(* full form | "::" | 1 to 6 groups then "::" | "::" then 1 to 6 groups *)
isValidIPv6(ip) ==
  LET g == Groups(ip)
  IN \/ g.hex /\ ~g.gap /\ g.head = 8
     \/ g.gap /\ g.head = 0 /\ g.tail = 0
     \/ g.hex /\ g.gap /\ g.head \in 1..6 /\ g.tail = 0
     \/ g.hex /\ g.gap /\ g.head = 0 /\ g.tail \in 1..6

----------------------------------------------------------------------------
(* The Technitium server, as the provider's calls use it:                   *)
(* /api/zones/records/add, /delete and /get answer {status: "ok"|"error"}.  *)

(* the type-specific parameter of an add or delete request *)
PayloadOf(form) ==
  CASE form.type \in {"A", "AAAA"} -> form.ipAddress
    [] form.type = "CNAME"         -> form.cname
    [] form.type = "TXT"           -> form.text
    [] form.type = "MX"            -> form.exchange
    [] OTHER                       -> ""

(* the record the server stores for an accepted add request *)
BackendRecord(form) ==
  [ name  |-> form.domain,
    type  |-> form.type,
    ttl   |-> form.ttl,
    rData |-> [ ipAddress  |-> form.ipAddress,
                cname      |-> form.cname,
                text       |-> form.text,
                exchange   |-> form.exchange,
                preference |-> form.preference ] ]

Matches(rec, form) ==
  /\ rec.name = form.domain
  /\ rec.type = form.type
  /\ getRecordContent(rec) = PayloadOf(form)

(* Array.find: index of the first element whose test gave true, 0 when there is none; *)
(* hits[i] is the outcome of the test on element i                                    *)
FirstIdx(hits) ==
  IF \E i \in 1..Len(hits) : hits[i]
  THEN CHOOSE i \in 1..Len(hits) : hits[i] /\ \A j \in 1..(i - 1) : ~hits[j]
  ELSE 0

RemoveAt(seq, k) == [i \in 1..(Len(seq) - 1) |-> IF i < k THEN seq[i] ELSE seq[i + 1]]

(* add answers "ok" only for a request that carries the type's parameter and names *)
(* no record the zone already holds ("already exists")                             *)
CanAdd(b, form) ==
  /\ PayloadOf(form) # ""
  /\ ~\E i \in 1..Len(b) : Matches(b[i], form)

(* delete answers "ok" only when the zone holds the record named ("not found" otherwise) *)
CanDelete(b, form) == \E i \in 1..Len(b) : Matches(b[i], form)

BackendAdd(b, form) == Append(b, BackendRecord(form))

BackendDelete(b, form) ==
  RemoveAt(b, FirstIdx([i \in 1..Len(b) |-> Matches(b[i], form)]))

(* what an awaited HTTP call can come back with: a body with status "ok", a body *)
(* with status "error", or a rejected promise (timeout, connection refused)      *)
Responses == {"ok", "error", "throw"}

----------------------------------------------------------------------------
(* Inputs: the desired record specs handed to batchEnsureRecords *)

Config(name, type, content, ttl) ==
  [name |-> name, type |-> type, content |-> Str(content), ttl |-> ttl, priority |-> 0,
   manage |-> TRUE]

(* the same spec with a priority (record.priority, the preference of an MX) *)
WithPriority(config, n) == [config EXCEPT !.priority = n]

(* the same spec with its manage flag off *)
Unmanaged(config) == [config EXCEPT !.manage = FALSE]

Configs ==
  { Config("app.example.com", "A", "1.2.3.4", 0),
    Config("app.example.com", "A", "5.6.7.8", 300),
    Config("app.example.com", "A", "1.2.3.4", -1),
    Config("app.example.com", "TXT", "hello", 0),
    Config("example.com", "MX", "mail.example.com", 3600),
    Config("_sip._tcp.example.com", "SRV", "sip.example.com", 300) }

RECURSIVE SeqsUpTo(_, _)
SeqsUpTo(S, n) ==
  IF n = 0 THEN {<<>>}
  ELSE LET shorter == SeqsUpTo(S, n - 1)
       IN shorter \cup {Append(q, x) : q \in {r \in shorter : Len(r) = n - 1}, x \in S}

Batches == SeqsUpTo(Configs, MaxBatch)

(* what the zone holds when the provider is constructed *)
InitialBackends ==
  { <<>>,
    <<BackendRecord(convertToTechnitiumFormat(Config("app.example.com", "A", "1.2.3.4", 300)))>>,
    <<BackendRecord(convertToTechnitiumFormat(Config("app.example.com", "TXT", "hello", 300))),
      BackendRecord(convertToTechnitiumFormat(Config("app.example.com", "TXT", "v=spf1 -all", 300)))>> }

----------------------------------------------------------------------------
(* provider.js: the record cache *)

NoForm == convertToTechnitiumFormat(Config("", "", "", 0))
NoId == <<"", "", "">>
NoHit(n) == [hit |-> FALSE, rec |-> convertToStandardFormat(BackendRecord(NoForm)), size |-> n]
Hit(rec, n) == [hit |-> TRUE, rec |-> rec, size |-> n]

Slots == {1}

IdleInv ==
  [ pc       |-> "idle",  \* idle, awaitList, awaitAdd, awaitDelete, awaitRefresh, done
    configs  |-> <<>>,    \* recordConfigs
    idx      |-> 0,       \* position of the for loop
    results  |-> <<>>,    \* results
    req      |-> NoForm,  \* the request body of the call being awaited
    delId    |-> NoId,    \* id handed to updateRecord / deleteRecord
    thrown   |-> FALSE,   \* batchEnsureRecords rejected instead of returning
    calls    |-> <<>>,    \* history: the backend calls issued, in order, with their answers
    found    |-> <<>>,    \* history: per item, what the lookup of `existing` gave
    outcome  |-> <<>>,    \* history: per item, created / updated / skipped / failed + error
    returned |-> 0,       \* history: the item whose create/updateRecord returned in this step
    clean    |-> TRUE,    \* history: every backend call so far answered "ok"
    rerun    |-> FALSE ]  \* history: same desired set as the previous, clean invocation

(* a refresh that merges: what the backend reports is appended to the *)
(* snapshot the cache already holds                                   *)
refreshRecordCacheMerging(b, t) ==
  [ records     |-> recordCache.records \o [i \in 1..Len(b) |-> convertToStandardFormat(b[i])],
    lastUpdated |-> t ]

(* refreshRecordCache, after the list call answered "ok" *)
refreshRecordCache(b, t) ==
  [ records     |-> [i \in 1..Len(b) |-> convertToStandardFormat(b[i])],
    lastUpdated |-> t ]

(* getRecordsFromCache of the provider base class: refresh when stale or empty *)
CacheNeedsRefresh(cache, t) ==
  \/ t - cache.lastUpdated > cacheRefreshInterval
  \/ Len(cache.records) = 0

(* a diff that compares the content by value: the content the cached record *)
(* stands for against the content string of the spec                        *)
recordNeedsUpdateByValue(existing, newRecord) ==
  LET contentDiff == getRecordContent(existing.original) # newRecord.content.s
      ttlDiff == newRecord.ttl # 0 /\ existing.ttl # newRecord.ttl
  IN contentDiff \/ ttlDiff

(* recordNeedsUpdate(existing, newRecord) *)
recordNeedsUpdate(existing, newRecord) ==
  LET contentDiff == ~StrictEq(existing.content, newRecord.content)
      ttlDiff == newRecord.ttl # 0 /\ existing.ttl # newRecord.ttl
  IN contentDiff \/ ttlDiff

(* this.recordCache.records.find(r => r.name === config.name && r.type === config.type) *)
FindExisting(records, config) ==
  FirstIdx([i \in 1..Len(records) |->
              records[i].name = config.name /\ records[i].type = config.type])

(* this.recordCache.records.find(r => r.id === id) *)
FindById(records, id) ==
  FirstIdx([i \in 1..Len(records) |-> records[i].id = id])

(* the invocation issues a backend call and suspends on it *)
Issue(iv, op, form) ==
  [iv EXCEPT !.pc = CASE op = "add" -> "awaitAdd"
                      [] op = "delete" -> "awaitDelete"
                      [] op = "list" -> "awaitList"
                      [] OTHER -> "awaitRefresh",
             !.req = form,
             !.calls = Append(@, [op |-> op, item |-> IF op = "list" THEN 0 ELSE iv.idx,
                                  form |-> form, resp |-> "pending",
                                  ret |-> "", held |-> FALSE, gone |-> FALSE])]

(* the awaited call came back with resp *)
Answered(iv, resp) ==
  [iv EXCEPT !.calls[Len(iv.calls)].resp = resp,
             !.clean = @ /\ resp = "ok",
             !.returned = 0]

(* the item is over: the loop moves on *)
ItemDone(iv, how, err) ==
  [iv EXCEPT !.idx = @ + 1,
             !.outcome = Append(@, [how |-> how, err |-> err]),
             !.req = NoForm,
             !.delId = NoId]

(* the Error a failed call raises: axios rejects, or the status check throws *)
CallError(op, resp) ==
  IF resp = "throw" THEN "network error"
  ELSE IF op = "add" THEN "Create failed: error"
  ELSE "Technitium API Error: error"

(* createRecord with no try around it in the batch loop: a validation Error *)
(* ends the whole invocation                                                 *)
createRecordUncaught(iv, record) ==
  IF validateRecord(record)
  THEN Issue(iv, "add", convertToTechnitiumFormat(record))
  ELSE [iv EXCEPT !.pc = "done", !.thrown = TRUE]

(* createRecord(record) up to its first await: validate, convert, post the add; *)
(* an Error it throws is caught by the try of the batch loop                     *)
createRecord(iv, record) ==
  IF validateRecord(record)
  THEN Issue(iv, "add", convertToTechnitiumFormat(record))
  ELSE ItemDone(iv, "failed", ValidationError(record))

(* deleteRecord(id) up to its await: the cached record with this id is converted *)
(* and its delete posted; with no such record it returns false at once and       *)
(* updateRecord goes on to createRecord                                          *)
deleteRecord(records, iv, id) ==
  LET k == FindById(records, id)
  IN IF k = 0 THEN createRecord(iv, iv.configs[iv.idx])
     ELSE Issue([iv EXCEPT !.delId = id], "delete", convertToTechnitiumFormat(records[k]))

(* updateRecord(id, record) up to its first await *)
updateRecord(records, iv, id) == deleteRecord(records, iv, id)

(* the for loop of batchEnsureRecords from item iv.idx on, up to the next await:   *)
(* items that are skipped or fail validation take no await, the loop runs through  *)
RECURSIVE RunLoop(_, _)
RunLoop(records, iv) ==
  IF iv.pc = "done" THEN iv
  ELSE IF iv.idx > Len(iv.configs) THEN [iv EXCEPT !.pc = "done"]
  ELSE LET config == iv.configs[iv.idx]
           k == FindExisting(records, config)
           n == Len(records)
           seen == [iv EXCEPT !.found = Append(@, IF k = 0 THEN NoHit(n) ELSE Hit(records[k], n))]
           step == IF k = 0 THEN createRecord(seen, config)
                   ELSE IF recordNeedsUpdate(records[k], config)
                        THEN updateRecord(records, seen, records[k].id)
                        ELSE ItemDone(seen, "skipped", "")
       IN IF step.idx = iv.idx THEN step ELSE RunLoop(records, step)

(* history kept when an invocation ends *)
Remember(iv) ==
  IF iv.pc = "done" THEN [set |-> TRUE, configs |-> iv.configs, clean |-> iv.clean /\ ~iv.thrown]
  ELSE last

(* batchEnsureRecords(recordConfigs), up to its first await *)
BatchStart(p) ==
  /\ inv[p].pc \in {"idle", "done"}
  /\ LET D == desired
         iv0 == [IdleInv EXCEPT !.configs = D, !.idx = 1,
                                !.rerun = last.set /\ last.clean /\ last.configs = D]
         iv1 == IF Len(D) = 0 THEN [iv0 EXCEPT !.pc = "done"]
                ELSE IF CacheNeedsRefresh(recordCache, now) THEN Issue(iv0, "list", NoForm)
                ELSE RunLoop(recordCache.records, iv0)
     IN /\ inv' = [inv EXCEPT ![p] = iv1]
        /\ last' = Remember(iv1)
  /\ UNCHANGED <<now, backend, recordCache, desired, ipVars>>

(* the list call of getRecordsFromCache comes back: the await is outside the try *)
ListResp(p, resp) ==
  /\ inv[p].pc = "awaitList"
  /\ LET iv == Answered(inv[p], resp)
         cache == IF resp = "ok" THEN refreshRecordCache(backend, now) ELSE recordCache
         iv1 == IF resp = "ok" THEN RunLoop(cache.records, iv)
                ELSE [iv EXCEPT !.pc = "done", !.thrown = TRUE]
     IN /\ recordCache' = cache
        /\ inv' = [inv EXCEPT ![p] = iv1]
        /\ last' = Remember(iv1)
  /\ UNCHANGED <<now, backend, desired, ipVars>>

(* what deleteRecord does with the answer to its delete call: true for status *)
(* "ok", false for any other status; a rejected request raises                *)
deleteRecordReturns(resp) ==
  CASE resp = "ok" -> "true"
    [] resp = "error" -> "false"
    [] OTHER -> "raise"

(* history of a delete call: what deleteRecord returned, whether the zone held *)
(* the record the request named when the backend answered, and whether the     *)
(* cache deleteRecord leaves holds no record of that id                        *)
DeleteAnswered(iv, resp, b, records) ==
  [Answered(iv, resp) EXCEPT !.calls[Len(iv.calls)].ret = deleteRecordReturns(resp),
                             !.calls[Len(iv.calls)].held = CanDelete(b, iv.req),
                             !.calls[Len(iv.calls)].gone = FindById(records, iv.delId) = 0]

(* the delete call of deleteRecord comes back: on "ok" the id is filtered out of *)
(* the cache and true returned, otherwise false; updateRecord ignores which and  *)
(* goes on to createRecord                                                       *)
DeleteResp(p, resp) ==
  /\ inv[p].pc = "awaitDelete"
  /\ resp = "ok" => CanDelete(backend, inv[p].req)
  /\ LET id == inv[p].delId
         KeepOther(r) == r.id # id
         records == IF resp = "ok" THEN SelectSeq(recordCache.records, KeepOther)
                    ELSE recordCache.records
         iv == DeleteAnswered(inv[p], resp, backend, records)
         iv1 == IF resp = "throw"
                THEN ItemDone(iv, "failed", CallError("delete", resp))
                ELSE createRecord(iv, iv.configs[iv.idx])
     IN /\ backend' = IF resp = "ok" THEN BackendDelete(backend, iv.req) ELSE backend
        /\ recordCache' = [recordCache EXCEPT !.records = records]
        /\ inv' = [inv EXCEPT ![p] = IF iv1.idx = iv.idx THEN iv1 ELSE RunLoop(records, iv1)]
        /\ last' = Remember(IF iv1.idx = iv.idx THEN iv1 ELSE RunLoop(records, iv1))
  /\ UNCHANGED <<now, desired, ipVars>>

(* history of an add call: whether the zone already held the record the *)
(* request named when the backend answered                              *)
AddAnswered(iv, resp, b) ==
  [Answered(iv, resp) EXCEPT !.calls[Len(iv.calls)].held = CanDelete(b, iv.req)]

(* the add call of createRecord comes back; on "ok" the cache refresh is started *)
AddResp(p, resp) ==
  /\ inv[p].pc = "awaitAdd"
  /\ resp = "ok" => CanAdd(backend, inv[p].req)
  /\ LET iv == AddAnswered(inv[p], resp, backend)
         iv1 == IF resp = "ok" THEN Issue(iv, "refresh", NoForm)
                ELSE RunLoop(recordCache.records, ItemDone(iv, "failed", CallError("add", resp)))
     IN /\ backend' = IF resp = "ok" THEN BackendAdd(backend, iv.req) ELSE backend
        /\ inv' = [inv EXCEPT ![p] = iv1]
        /\ last' = Remember(iv1)
  /\ UNCHANGED <<now, recordCache, desired, ipVars>>

(* the list call of createRecord's refreshRecordCache comes back: on "ok" the    *)
(* cache is replaced, createRecord returns the record and the loop pushes it     *)
RefreshResp(p, resp) ==
  /\ inv[p].pc = "awaitRefresh"
  /\ LET iv == Answered(inv[p], resp)
         cache == IF resp = "ok" THEN refreshRecordCache(backend, now) ELSE recordCache
         iv1 == IF resp = "ok"
                THEN ItemDone([iv EXCEPT !.results = Append(@, iv.configs[iv.idx]),
                                         !.returned = iv.idx],
                              IF iv.found[iv.idx].hit THEN "updated" ELSE "created", "")
                ELSE ItemDone(iv, "failed", CallError("refresh", resp))
         iv2 == RunLoop(cache.records, iv1)
     IN /\ recordCache' = cache
        /\ inv' = [inv EXCEPT ![p] = iv2]
        /\ last' = Remember(iv2)
  /\ UNCHANGED <<now, backend, desired, ipVars>>

----------------------------------------------------------------------------
(* ConfigManager: the public IP resolver.  One action per synchronous        *)
(* segment of a call.  null and undefined are both written "": the code only *)
(* tests these values for truthiness.                                        *)

NumCalls == 2      \* calls of the resolver's entry points per behaviour, the timer's included

IPv4s == {"198.51.100.1", "198.51.100.2"}   \* what an IPv4 lookup may answer
IPv6s == {"2001:db8::1"}                    \* what the IPv6 lookup may answer
Fail == "fail"     \* the lookup rejected: error status, timeout, no route

Kinds == {"getPublicIP", "getPublicIPSync", "getPublicIPv6Sync", "updatePublicIPs"}

Environments ==
  [ PUBLIC_IP : {"", "203.0.113.7"},
    PUBLIC_IPV6 : {"", "2001:db8::7"},
    ipRefreshInterval : {0, 1} ]

Ctor == 0                        \* the constructor's own updatePublicIPs()
CallSlots == 0..NumCalls

NoRet == [set |-> FALSE, ipv4 |-> "", ipv6 |-> ""]

FreeCall ==
  [ kind    |-> "",
    pc      |-> "free",   \* free, waiting, primary, fallback, ipv6, done
    ipv4    |-> "",       \* let ipv4
    ipv6    |-> "",       \* let ipv6
    oldIpv4 |-> "",       \* const oldIpv4
    oldIpv6 |-> "",       \* const oldIpv6
    ret     |-> NoRet,    \* the cache as the call's promise saw it when it resolved
    syncRet |-> "",       \* what a ...Sync getter returned at once
    refresh |-> 0,        \* history: number of the refresh this call ran, 0 if none
    joined  |-> 0,        \* history: number of the refresh in flight when it arrived
    issued  |-> 0,        \* history: outbound lookups this call issued
    fresh   |-> FALSE,    \* history of getPublicIP: on arrival ipv4 was present and the
                          \* cache younger than ipRefreshInterval
    seen4   |-> "",       \* history of getPublicIP: ipCache.ipv4 on arrival
    latch   |-> FALSE,    \* history: the call read or wrote ipUpdateInProgress
    lost4   |-> FALSE,    \* history: primary and fallback lookup both failed
    note4   |-> 0,        \* history: "Public IPv4" lines this call logged
    note6   |-> 0 ]       \* history: "Public IPv6" lines this call logged

InFlight(c) == c.pc \in {"primary", "fallback", "ipv6"}

Started(cs) == Cardinality({s \in DOMAIN cs : cs[s].refresh # 0})

Snapshot(cache) == [set |-> TRUE, ipv4 |-> cache.ipv4, ipv6 |-> cache.ipv6]

(* a refresh that logs every address it resolved, changed or not *)
FinishRefreshLoud(c, t) ==
  LET cache == [ipv4 |-> c.ipv4, ipv6 |-> c.ipv6, lastCheck |-> t]
  IN [ cache |-> cache,
       flag  |-> FALSE,
       call  |-> [c EXCEPT !.pc = "done",
                           !.ret = Snapshot(cache),
                           !.note4 = IF c.ipv4 # "" THEN 1 ELSE 0,
                           !.note6 = IF c.ipv6 # "" THEN 1 ELSE 0] ]

(* a refresh without the finally: the flag stays as it was *)
FinishRefreshNoFinally(c, t) ==
  LET cache == [ipv4 |-> c.ipv4, ipv6 |-> c.ipv6, lastCheck |-> t]
  IN [ cache |-> cache,
       flag  |-> TRUE,
       call  |-> [c EXCEPT !.pc = "done",
                           !.ret = Snapshot(cache),
                           !.note4 = IF c.ipv4 # "" /\ c.ipv4 # c.oldIpv4 THEN 1 ELSE 0,
                           !.note6 = IF c.ipv6 # "" /\ c.ipv6 # c.oldIpv6 THEN 1 ELSE 0] ]

(* the end of the try block and the finally: the cache is replaced, a changed *)
(* address is logged once, the flag is cleared, the cache is returned         *)
FinishRefresh(c, t) ==
  LET cache == [ipv4 |-> c.ipv4, ipv6 |-> c.ipv6, lastCheck |-> t]
  IN [ cache |-> cache,
       flag  |-> FALSE,
       call  |-> [c EXCEPT !.pc = "done",
                           !.ret = Snapshot(cache),
                           !.note4 = IF c.ipv4 # "" /\ c.ipv4 # c.oldIpv4 THEN 1 ELSE 0,
                           !.note6 = IF c.ipv6 # "" /\ c.ipv6 # c.oldIpv6 THEN 1 ELSE 0] ]

(* the IPv6 stage: one lookup unless PUBLIC_IPV6 gave the address *)
Ipv6Stage(c, cache, t) ==
  IF c.ipv6 = ""
  THEN [cache |-> cache, flag |-> TRUE, call |-> [c EXCEPT !.pc = "ipv6", !.issued = @ + 1]]
  ELSE FinishRefresh(c, t)

(* the IPv4 stage: the primary lookup unless PUBLIC_IP gave the address *)
Ipv4Stage(c, cache, t) ==
  IF c.ipv4 = ""
  THEN [cache |-> cache, flag |-> TRUE, call |-> [c EXCEPT !.pc = "primary", !.issued = @ + 1]]
  ELSE Ipv6Stage(c, cache, t)

(* a resolver that never sees the flag *)
LatchedNever(flag) == FALSE

(* if (ipUpdateInProgress) *)
Latched(flag) == flag

(* updatePublicIPs up to its first await.  With the flag set the call polls; *)
(* otherwise it sets the flag, remembers the old addresses, takes the        *)
(* environment's and starts the lookups.  n is the number of refreshes       *)
(* started so far.                                                           *)
updatePublicIPs(c, cache, flag, e, t, n) ==
  IF Latched(flag)
  THEN [cache |-> cache, flag |-> flag,
        call |-> [c EXCEPT !.pc = "waiting", !.joined = n, !.latch = TRUE]]
  ELSE Ipv4Stage([c EXCEPT !.refresh = n + 1,
                           !.latch = TRUE,
                           !.oldIpv4 = cache.ipv4,
                           !.oldIpv6 = cache.ipv6,
                           !.ipv4 = e.PUBLIC_IP,
                           !.ipv6 = e.PUBLIC_IPV6],
                 cache, t)

(* a test that takes any cached ipv4 for fresh *)
CacheFreshWhateverAge(cache, t, interval) == cache.ipv4 # ""

(* getPublicIP's test: this.ipCache.ipv4 && cacheAge < this.ipRefreshInterval *)
CacheFresh(cache, t, interval) == cache.ipv4 # "" /\ t - cache.lastCheck < interval

getPublicIP(c, cache, flag, e, t, n) ==
  IF CacheFresh(cache, t, e.ipRefreshInterval)
  THEN [cache |-> cache, flag |-> flag,
        call |-> [c EXCEPT !.pc = "done", !.ret = Snapshot(cache)]]
  ELSE updatePublicIPs(c, cache, flag, e, t, n)

(* the refresh runs on in the background; the getter returns the cached value *)
getPublicIPSync(c, cache, flag, e, t, n) ==
  LET r == IF cache.ipv4 = ""
           THEN updatePublicIPs(c, cache, flag, e, t, n)
           ELSE [cache |-> cache, flag |-> flag, call |-> [c EXCEPT !.pc = "done"]]
  IN [r EXCEPT !.call.syncRet = r.cache.ipv4]

getPublicIPv6Sync(c, cache, flag, e, t, n) ==
  LET r == IF cache.ipv6 = ""
           THEN updatePublicIPs(c, cache, flag, e, t, n)
           ELSE [cache |-> cache, flag |-> flag, call |-> [c EXCEPT !.pc = "done"]]
  IN [r EXCEPT !.call.syncRet = r.cache.ipv6]

Arrive(kind) ==
  [FreeCall EXCEPT !.kind = kind,
                   !.seen4 = IF kind = "getPublicIP" THEN ipCache.ipv4 ELSE "",
                   !.fresh = /\ kind = "getPublicIP"
                             /\ ipCache.ipv4 # ""
                             /\ now - ipCache.lastCheck < env.ipRefreshInterval]

Dispatch(kind) ==
  LET c == Arrive(kind)
      n == Started(calls)
  IN CASE kind = "getPublicIP" -> getPublicIP(c, ipCache, ipUpdateInProgress, env, now, n)
       [] kind = "getPublicIPSync" -> getPublicIPSync(c, ipCache, ipUpdateInProgress, env, now, n)
       [] kind = "getPublicIPv6Sync" -> getPublicIPv6Sync(c, ipCache, ipUpdateInProgress, env, now, n)
       [] OTHER -> updatePublicIPs(c, ipCache, ipUpdateInProgress, env, now, n)

NextSlot(s) == calls[s].pc = "free" /\ \A q \in CallSlots : q < s => calls[q].pc # "free"

Apply(s, r) ==
  /\ calls' = [calls EXCEPT ![s] = r.call]
  /\ ipCache' = r.cache
  /\ ipUpdateInProgress' = r.flag

(* some part of the application calls one of the resolver's entry points *)
Call(s, kind) ==
  /\ NextSlot(s)
  /\ Apply(s, Dispatch(kind))
  /\ UNCHANGED <<now, env, nextFire, provVars>>

(* setInterval(() => this.updatePublicIPs(), this.ipRefreshInterval) *)
TimerFire(s) ==
  /\ env.ipRefreshInterval > 0
  /\ now >= nextFire
  /\ NextSlot(s)
  /\ Apply(s, Dispatch("timer"))
  /\ nextFire' = nextFire + env.ipRefreshInterval
  /\ UNCHANGED <<now, env, provVars>>

(* the waiter's 100 ms poll finds the flag clear: the call returns the cache *)
Poll(s) ==
  /\ calls[s].pc = "waiting"
  /\ ~ipUpdateInProgress
  /\ calls' = [calls EXCEPT ![s].pc = "done", ![s].ret = Snapshot(ipCache)]
  /\ UNCHANGED <<now, ipUpdateInProgress, ipCache, env, nextFire, provVars>>

(* api.ipify.org answers, or the request fails *)
PrimaryResp(s, r) ==
  /\ calls[s].pc = "primary"
  /\ Apply(s, IF r # Fail
              THEN Ipv6Stage([calls[s] EXCEPT !.ipv4 = r], ipCache, now)
              ELSE [cache |-> ipCache, flag |-> TRUE,
                    call |-> [calls[s] EXCEPT !.pc = "fallback", !.issued = @ + 1]])
  /\ UNCHANGED <<now, env, nextFire, provVars>>

(* ifconfig.me answers, or the request fails and ipv4 stays undefined *)
FallbackResp(s, r) ==
  /\ calls[s].pc = "fallback"
  /\ Apply(s, IF r # Fail
              THEN Ipv6Stage([calls[s] EXCEPT !.ipv4 = r], ipCache, now)
              ELSE Ipv6Stage([calls[s] EXCEPT !.lost4 = TRUE], ipCache, now))
  /\ UNCHANGED <<now, env, nextFire, provVars>>

(* api6.ipify.org answers, or the request fails and ipv6 stays undefined *)
Ipv6Resp(s, r) ==
  /\ calls[s].pc = "ipv6"
  /\ Apply(s, FinishRefresh(IF r # Fail THEN [calls[s] EXCEPT !.ipv6 = r] ELSE calls[s], now))
  /\ UNCHANGED <<now, env, nextFire, provVars>>

(* The clock counts refresh intervals and stops after MaxNow of them; with an *)
(* interval of 0 no cache is ever fresh and no timer runs, so no time needs   *)
(* to pass.  A timer that is due fires before another whole interval passes.  *)
TickIP ==
  /\ now < env.ipRefreshInterval * (1 + MaxNow)
  /\ now < nextFire
  /\ now' = now + 1
  /\ UNCHANGED <<ipVars, provVars>>

----------------------------------------------------------------------------
(* The two specifications: the provider's reconciliation, and the resolver *)

(* time passes *)
Tick ==
  /\ now < MaxNow
  /\ \A p \in Slots : inv[p].pc = "done"   \* between two polls of the desired set
  /\ now' = now + 1
  /\ UNCHANGED <<provVars, ipVars>>

vars == <<now, backend, recordCache, inv, last, desired,
          ipUpdateInProgress, ipCache, env, calls, nextFire>>

NoEnvironment == [PUBLIC_IP |-> "", PUBLIC_IPV6 |-> "", ipRefreshInterval |-> 0]

(* this.ipCache as the constructor first sets it *)
InitialIpCache(e) == [ipv4 |-> e.PUBLIC_IP, ipv6 |-> e.PUBLIC_IPV6, lastCheck |-> 0]

Init ==
  /\ now = 0
  /\ backend \in InitialBackends
  /\ recordCache = [records |-> <<>>, lastUpdated |-> 0]
  /\ inv = [p \in Slots |-> IdleInv]
  /\ last = [set |-> FALSE, configs |-> <<>>, clean |-> FALSE]
  /\ desired \in Batches
  /\ ipUpdateInProgress = FALSE
  /\ ipCache = InitialIpCache(NoEnvironment)
  /\ env = NoEnvironment
  /\ calls = [s \in CallSlots |-> FreeCall]
  /\ nextFire = 0

Next ==
  \/ \E p \in Slots : BatchStart(p)
  \/ \E p \in Slots, resp \in Responses : ListResp(p, resp)
  \/ \E p \in Slots, resp \in Responses : DeleteResp(p, resp)
  \/ \E p \in Slots, resp \in Responses : AddResp(p, resp)
  \/ \E p \in Slots, resp \in Responses : RefreshResp(p, resp)
  \/ Tick

Spec == Init /\ [][Next]_vars

(* The state the constructor leaves: its updatePublicIPs() has run up to its *)
(* first await (to its end when the environment gives both addresses), and   *)
(* the timer is set when the interval is positive.  The clock starts where a *)
(* cache that was never checked (lastCheck 0) is no longer fresh.            *)
InitIP ==
  /\ env \in Environments
  /\ now = env.ipRefreshInterval
  /\ LET r == updatePublicIPs([FreeCall EXCEPT !.kind = "constructor"],
                              InitialIpCache(env), FALSE, env, now, 0)
     IN /\ calls = [s \in CallSlots |-> IF s = Ctor THEN r.call ELSE FreeCall]
        /\ ipCache = r.cache
        /\ ipUpdateInProgress = r.flag
  /\ nextFire = now + env.ipRefreshInterval
  /\ backend = <<>>
  /\ recordCache = [records |-> <<>>, lastUpdated |-> 0]
  /\ inv = [p \in Slots |-> IdleInv]
  /\ last = [set |-> FALSE, configs |-> <<>>, clean |-> FALSE]
  /\ desired = <<>>

NextIP ==
  \/ \E s \in CallSlots, kind \in Kinds : Call(s, kind)
  \/ \E s \in CallSlots : TimerFire(s)
  \/ \E s \in CallSlots : Poll(s)
  \/ \E s \in CallSlots, r \in IPv4s \cup {Fail} : PrimaryResp(s, r)
  \/ \E s \in CallSlots, r \in IPv4s \cup {Fail} : FallbackResp(s, r)
  \/ \E s \in CallSlots, r \in IPv6s \cup {Fail} : Ipv6Resp(s, r)
  \/ TickIP

SpecIP == InitIP /\ [][NextIP]_vars

(* The provider handed one spec at a time, the specs chosen for what the     *)
(* gating of its input has to tell apart                                     *)
ValidationConfigs ==
  { Config("app.example.com", "A", "1.2.3.4", 300),
    Config("app.example.com", "A", "999.1.1.1", 300),
    Config("app.example.com", "AAAA", "2001:db8:0:0:0:0:0:1", 300),
    Config("app.example.com", "AAAA", "2001:db8::zz", 300),
    Config("www.example.com", "CNAME", "app.example.com", 300),
    Config(Zone, "CNAME", "app.example.com", 300),
    Unmanaged(Config("app.example.com", "A", "5.6.7.8", 300)) }

InitValidation ==
  /\ now = 0
  /\ backend \in InitialBackends
  /\ recordCache = [records |-> <<>>, lastUpdated |-> 0]
  /\ inv = [p \in Slots |-> IdleInv]
  /\ last = [set |-> FALSE, configs |-> <<>>, clean |-> FALSE]
  /\ desired \in {<<c>> : c \in ValidationConfigs}
  /\ ipUpdateInProgress = FALSE
  /\ ipCache = InitialIpCache(NoEnvironment)
  /\ env = NoEnvironment
  /\ calls = [s \in CallSlots |-> FreeCall]
  /\ nextFire = 0

SpecValidation == InitValidation /\ [][Next]_vars

(* The provider handed specs of a type a name may hold several records of *)
MultiValueConfigs ==
  { Config("app.example.com", "TXT", "hello", 300),
    Config("app.example.com", "TXT", "v=spf1 -all", 300) }

InitMultiValue ==
  /\ now = 0
  /\ backend \in InitialBackends
  /\ recordCache = [records |-> <<>>, lastUpdated |-> 0]
  /\ inv = [p \in Slots |-> IdleInv]
  /\ last = [set |-> FALSE, configs |-> <<>>, clean |-> FALSE]
  /\ desired \in SeqsUpTo(MultiValueConfigs, MaxBatch)
  /\ ipUpdateInProgress = FALSE
  /\ ipCache = InitialIpCache(NoEnvironment)
  /\ env = NoEnvironment
  /\ calls = [s \in CallSlots |-> FreeCall]
  /\ nextFire = 0

SpecMultiValue == InitMultiValue /\ [][Next]_vars

(* The resolver with callers that keep coming: a call that has returned     *)
(* frees its slot, so the entry points can be called again and again.  The  *)
(* waiter's 100 ms poll keeps firing and every outbound lookup comes back   *)
(* (axios timeout 5000); nothing obliges the application to call.           *)
Release(s) ==
  /\ calls[s].pc = "done"
  /\ calls' = [calls EXCEPT ![s] = FreeCall]
  /\ UNCHANGED <<now, ipUpdateInProgress, ipCache, env, nextFire, provVars>>

(* PUBLIC_IPV6 is set, the IPv4 address is looked up, the timer runs *)
LiveEnvironment == [PUBLIC_IP |-> "", PUBLIC_IPV6 |-> "2001:db8::7", ipRefreshInterval |-> 1]

LiveAnswers == {"198.51.100.1", Fail}

(* the entry points that wait for the refresh they start or find *)
LiveKinds == {"getPublicIP", "updatePublicIPs"}

InitIPLive ==
  /\ env = LiveEnvironment
  /\ now = env.ipRefreshInterval
  /\ LET r == updatePublicIPs([FreeCall EXCEPT !.kind = "constructor"],
                              InitialIpCache(env), FALSE, env, now, 0)
     IN /\ calls = [s \in CallSlots |-> IF s = Ctor THEN r.call ELSE FreeCall]
        /\ ipCache = r.cache
        /\ ipUpdateInProgress = r.flag
  /\ nextFire = now + env.ipRefreshInterval
  /\ backend = <<>>
  /\ recordCache = [records |-> <<>>, lastUpdated |-> 0]
  /\ inv = [p \in Slots |-> IdleInv]
  /\ last = [set |-> FALSE, configs |-> <<>>, clean |-> FALSE]
  /\ desired = <<>>

NextIPLive ==
  \/ \E s \in CallSlots, kind \in LiveKinds : Call(s, kind)
  \/ \E s \in CallSlots : TimerFire(s)
  \/ \E s \in CallSlots : Poll(s)
  \/ \E s \in CallSlots, r \in LiveAnswers : PrimaryResp(s, r)
  \/ \E s \in CallSlots, r \in LiveAnswers : FallbackResp(s, r)
  \/ TickIP
  \/ \E s \in CallSlots : Release(s)

FairIP ==
  \A s \in CallSlots :
     /\ WF_vars(Poll(s))
     /\ WF_vars(\E r \in LiveAnswers : PrimaryResp(s, r))
     /\ WF_vars(\E r \in LiveAnswers : FallbackResp(s, r))

SpecIPLive == InitIPLive /\ [][NextIPLive]_vars /\ FairIP

(* Two invocations of batchEnsureRecords on the same provider that may       *)
(* overlap: nothing in the provider keeps a second call from starting while *)
(* the first is suspended on a backend call                                 *)
OverlapSlots == {1, 2}

OverlapConfigs ==
  { Config("app.example.com", "A", "1.2.3.4", 300),
    Config("app.example.com", "A", "5.6.7.8", 300) }

InitOverlap ==
  /\ now = 0
  /\ backend \in InitialBackends
  /\ recordCache = [records |-> <<>>, lastUpdated |-> 0]
  /\ inv = [p \in OverlapSlots |-> IdleInv]
  /\ last = [set |-> FALSE, configs |-> <<>>, clean |-> FALSE]
  /\ desired \in {<<c>> : c \in OverlapConfigs}
  /\ ipUpdateInProgress = FALSE
  /\ ipCache = InitialIpCache(NoEnvironment)
  /\ env = NoEnvironment
  /\ calls = [s \in CallSlots |-> FreeCall]
  /\ nextFire = 0

NextOverlap ==
  \/ \E p \in OverlapSlots : BatchStart(p)
  \/ \E p \in OverlapSlots, resp \in Responses : ListResp(p, resp)
  \/ \E p \in OverlapSlots, resp \in Responses : DeleteResp(p, resp)
  \/ \E p \in OverlapSlots, resp \in Responses : AddResp(p, resp)
  \/ \E p \in OverlapSlots, resp \in Responses : RefreshResp(p, resp)

SpecOverlap == InitOverlap /\ [][NextOverlap]_vars

(* MX records whose priority changes: the zone holds an MX record, the      *)
(* desired specs name the same or another exchange with a priority or none  *)
Priorities == {0, 10, 20}

TypeFieldConfigs ==
  { WithPriority(Config("example.com", "MX", x, ttl), n) :
      x \in {"mail.example.com", "mx2.example.com"}, ttl \in {3600}, n \in Priorities }

TypeFieldBackends ==
  { <<BackendRecord(convertToTechnitiumFormat(c))>> :
      c \in {d \in TypeFieldConfigs : d.ttl = 3600 /\ d.content.s = "mail.example.com"} }

InitTypeFields ==
  /\ now = 0
  /\ backend \in TypeFieldBackends
  /\ recordCache = [records |-> <<>>, lastUpdated |-> 0]
  /\ inv = [p \in Slots |-> IdleInv]
  /\ last = [set |-> FALSE, configs |-> <<>>, clean |-> FALSE]
  /\ desired \in SeqsUpTo(TypeFieldConfigs, MaxBatch)
  /\ ipUpdateInProgress = FALSE
  /\ ipCache = InitialIpCache(NoEnvironment)
  /\ env = NoEnvironment
  /\ calls = [s \in CallSlots |-> FreeCall]
  /\ nextFire = 0

SpecTypeFields == InitTypeFields /\ [][Next]_vars

(* Specs that lack a required field, next to a complete one *)
RequiredConfigs ==
  { Config("", "A", "1.2.3.4", 300),
    Config("app.example.com", "", "1.2.3.4", 300),
    Config("app.example.com", "A", "", 300),
    Config("www.example.com", "TXT", "", 300),
    Config("app.example.com", "A", "5.6.7.8", 300) }

InitRequired ==
  /\ now = 0
  /\ backend \in InitialBackends
  /\ recordCache = [records |-> <<>>, lastUpdated |-> 0]
  /\ inv = [p \in Slots |-> IdleInv]
  /\ last = [set |-> FALSE, configs |-> <<>>, clean |-> FALSE]
  /\ desired \in SeqsUpTo(RequiredConfigs, MaxBatch)
  /\ ipUpdateInProgress = FALSE
  /\ ipCache = InitialIpCache(NoEnvironment)
  /\ env = NoEnvironment
  /\ calls = [s \in CallSlots |-> FreeCall]
  /\ nextFire = 0

SpecRequired == InitRequired /\ [][Next]_vars

(* Specs that differ in their ttl.  A ttl of 0 that was written into the    *)
(* spec and a ttl that was left out are told apart by ttlGiven; the code    *)
(* reads record.ttl alone and takes both as falsy.                          *)
GivenTtl(config) == [name |-> config.name, type |-> config.type, content |-> config.content,
                     ttl |-> config.ttl, priority |-> config.priority,
                     manage |-> config.manage, ttlGiven |-> TRUE]

NoTtl(config) == [GivenTtl(config) EXCEPT !.ttl = 0, !.ttlGiven = FALSE]

TtlConfigs ==
  { GivenTtl(Config("app.example.com", "A", "1.2.3.4", t)) : t \in {-300, -1, 0, 1, 300, 3600} }
    \cup { NoTtl(Config("app.example.com", "A", "1.2.3.4", 0)) }

InitTtl ==
  /\ now = 0
  /\ backend \in InitialBackends
  /\ recordCache = [records |-> <<>>, lastUpdated |-> 0]
  /\ inv = [p \in Slots |-> IdleInv]
  /\ last = [set |-> FALSE, configs |-> <<>>, clean |-> FALSE]
  /\ desired \in {<<c>> : c \in TtlConfigs}
  /\ ipUpdateInProgress = FALSE
  /\ ipCache = InitialIpCache(NoEnvironment)
  /\ env = NoEnvironment
  /\ calls = [s \in CallSlots |-> FreeCall]
  /\ nextFire = 0

SpecTtl == InitTtl /\ [][Next]_vars

(* The converter on its own: a canonical record is converted to the wire    *)
(* format, the server stores what the request carries, and the stored       *)
(* record is converted back.  The record is desired[1], the wire form       *)
(* inv[p].req, the stored record backend[1], the result the cached record.  *)
SupportedTypes == {"A", "AAAA", "CNAME", "ANAME", "TXT", "MX", "SRV", "CAA"}

CanonicalContent(type) ==
  CASE type = "A"    -> "1.2.3.4"
    [] type = "AAAA" -> "2001:db8::1"
    [] type = "TXT"  -> "v=spf1 -all"
    [] type = "MX"   -> "mail.example.com"
    [] type = "CAA"  -> "letsencrypt.org"
    [] OTHER         -> "app.example.com"

CanonicalRecords ==
  { Config(name, type, CanonicalContent(type), ttl) :
      name \in {"www.example.com", Zone}, type \in SupportedTypes, ttl \in {60, 300, 3600} }

InitConverter ==
  /\ now = 0
  /\ backend = <<>>
  /\ recordCache = [records |-> <<>>, lastUpdated |-> 0]
  /\ inv = [p \in Slots |-> IdleInv]
  /\ last = [set |-> FALSE, configs |-> <<>>, clean |-> FALSE]
  /\ desired \in {<<c>> : c \in CanonicalRecords}
  /\ ipUpdateInProgress = FALSE
  /\ ipCache = InitialIpCache(NoEnvironment)
  /\ env = NoEnvironment
  /\ calls = [s \in CallSlots |-> FreeCall]
  /\ nextFire = 0

ToWire(p) ==
  /\ inv[p].pc = "idle"
  /\ inv' = [inv EXCEPT ![p].pc = "wire", ![p].req = convertToTechnitiumFormat(desired[1])]
  /\ UNCHANGED <<now, backend, recordCache, last, desired, ipVars>>

Stored(p) ==
  /\ inv[p].pc = "wire"
  /\ backend' = BackendAdd(backend, inv[p].req)
  /\ inv' = [inv EXCEPT ![p].pc = "stored"]
  /\ UNCHANGED <<now, recordCache, last, desired, ipVars>>

FromWire(p) ==
  /\ inv[p].pc = "stored"
  /\ recordCache' = refreshRecordCache(backend, now)
  /\ inv' = [inv EXCEPT ![p].pc = "back"]
  /\ UNCHANGED <<now, backend, last, desired, ipVars>>

NextConverter ==
  \/ \E p \in Slots : ToWire(p)
  \/ \E p \in Slots : Stored(p)
  \/ \E p \in Slots : FromWire(p)

SpecConverter == InitConverter /\ [][NextConverter]_vars

----------------------------------------------------------------------------
(* Reading the history of an invocation *)

IsMutation(c) == c.op \in {"add", "delete"}
Mutations(log) == SelectSeq(log, IsMutation)

ItemCalls(iv, i) ==
  LET OfItem(c) == c.item = i IN SelectSeq(iv.calls, OfItem)

Ops(log) == [k \in 1..Len(log) |-> log[k].op]

(* no two desired specs share the identity key (name, type) *)
KeysDistinct(D) ==
  \A i, j \in 1..Len(D) : i # j => ~(D[i].name = D[j].name /\ D[i].type = D[j].type)

(* the record the zone holds says what the spec asks for *)
SameAsExisting(existing, config) ==
  /\ getRecordContent(existing.original) = config.content.s
  /\ config.ttl = 0 \/ existing.original.ttl = config.ttl

CacheHolds(config) ==
  \E k \in 1..Len(recordCache.records) :
     LET r == recordCache.records[k]
     IN /\ r.name = config.name
        /\ r.type = config.type
        /\ StrictEq(r.content, config.content)

(* item i was created or updated: its add call and the cache refresh answered "ok" *)
Succeeded(iv, i) ==
  /\ \E k \in 1..Len(iv.calls) :
        iv.calls[k].item = i /\ iv.calls[k].op = "add" /\ iv.calls[k].resp = "ok"
  /\ \E k \in 1..Len(iv.calls) :
        iv.calls[k].item = i /\ iv.calls[k].op = "refresh" /\ iv.calls[k].resp = "ok"

RECURSIVE SucceededFrom(_, _)
SucceededFrom(iv, i) ==
  IF i > Len(iv.configs) THEN <<>>
  ELSE (IF Succeeded(iv, i) THEN <<iv.configs[i]>> ELSE <<>>) \o SucceededFrom(iv, i + 1)

DeleteSucceeded(iv, i) ==
  \E k \in 1..Len(iv.calls) :
     iv.calls[k].item = i /\ iv.calls[k].op = "delete" /\ iv.calls[k].resp = "ok"

(* the Errors a createRecord that is no part of an update can raise *)
OrdinaryErrors ==
  {ValidationError(c) : c \in Configs}
    \cup {CallError(op, resp) : op \in {"add", "refresh"}, resp \in {"error", "throw"}}

----------------------------------------------------------------------------
(* C1. Idempotent convergence: once batchEnsureRecords(D) has completed with   *)
(* every backend call answered "ok", a second batchEnsureRecords(D) against    *)
(* the untouched backend issues no add and no delete call (checked for desired *)
(* sets whose specs have distinct identity keys).                              *)
C1_IdempotentConvergence ==
  \A p \in Slots :
     inv[p].rerun /\ KeysDistinct(inv[p].configs) => Mutations(inv[p].calls) = <<>>

(* C2. Update-iff-changed: for a processed spec whose identity key matched a   *)
(* cached record, the batch issued no backend call at all when content and ttl *)
(* are those of the existing record, and otherwise (for a valid spec whose     *)
(* delete call was answered) exactly one delete followed by exactly one add    *)
(* (checked for desired sets whose specs have distinct identity keys).         *)
C2_UpdateIffChanged ==
  \A p \in Slots : \A i \in 1..Len(inv[p].outcome) :
     LET iv == inv[p]
         config == iv.configs[i]
         cs == ItemCalls(iv, i)
     IN (iv.found[i].hit /\ KeysDistinct(iv.configs)) =>
          IF SameAsExisting(iv.found[i].rec, config)
          THEN cs = <<>>
          ELSE (validateRecord(config) /\ cs[1].resp # "throw")
                  => Ops(Mutations(cs)) = <<"delete", "add">>

(* C3. Create-if-absent: a batch of one valid spec run on an empty cache       *)
(* issues exactly one add call, which carries the spec's name, type, content   *)
(* and ttl, and when createRecord has returned the cache holds the record.     *)
C3_CreateIfAbsent ==
  \A p \in Slots :
     LET iv == inv[p] IN
     ( /\ iv.pc = "done"
       /\ Len(iv.configs) = 1
       /\ ~iv.thrown
       /\ iv.found[1].size = 0
       /\ validateRecord(iv.configs[1]) )
     => LET config == iv.configs[1]
            cs == Mutations(iv.calls)
        IN /\ Ops(cs) = <<"add">>
           /\ cs[1].form.domain = config.name
           /\ cs[1].form.type = config.type
           /\ PayloadOf(cs[1].form) = config.content.s
           /\ config.ttl # 0 => cs[1].form.ttl = config.ttl
           /\ iv.outcome[1].how = "created" => CacheHolds(config)

(* C4. Delete-then-create equivalence: when updateRecord has just returned,    *)
(* the cache holds a record with the new content under the spec's name and     *)
(* type, and no longer holds the record with the old content, whatever the     *)
(* backend answered to the delete call.                                        *)
C4_DeleteThenCreate ==
  \A p \in Slots :
     LET iv == inv[p] IN
     (iv.returned # 0 /\ iv.found[iv.returned].hit)
     => LET config == iv.configs[iv.returned]
            old == iv.found[iv.returned].rec
        IN /\ CacheHolds(config)
           /\ getRecordContent(old.original) # config.content.s
                => ~\E k \in 1..Len(recordCache.records) :
                       recordCache.records[k].original = old.original

(* C5. Partial update failure: when the delete call of an update was answered  *)
(* "ok" and the create step then failed, the error reported for the item is    *)
(* none of the errors an ordinary failed create reports.                       *)
C5_PartialUpdateFailure ==
  \A p \in Slots : \A i \in 1..Len(inv[p].outcome) :
     LET iv == inv[p] IN
     (iv.found[i].hit /\ DeleteSucceeded(iv, i) /\ iv.outcome[i].how = "failed")
     => iv.outcome[i].err \notin OrdinaryErrors

(* C6. Partial-batch resilience: once the cache is loaded, batchEnsureRecords  *)
(* never throws, every item of the batch is processed whatever happened to the *)
(* items before it, and the returned list is exactly the specs that were       *)
(* created or updated, in input order.                                         *)
C6_PartialBatchResilience ==
  \A p \in Slots :
     LET iv == inv[p] IN
     (iv.pc = "done" /\ ~(iv.calls # <<>> /\ iv.calls[1].op = "list" /\ iv.calls[1].resp # "ok"))
     => /\ ~iv.thrown
        /\ Len(iv.found) = Len(iv.configs)
        /\ Len(iv.outcome) = Len(iv.configs)
        /\ iv.results = SucceededFrom(iv, 1)

(* a batch of two specs where the first failed and the second was created or updated *)
C6_Witness ==
  \E p \in Slots :
     /\ inv[p].pc = "done"
     /\ Len(inv[p].configs) = 2
     /\ Len(inv[p].outcome) = 2
     /\ inv[p].outcome[1].how = "failed"
     /\ inv[p].results = <<inv[p].configs[2]>>

----------------------------------------------------------------------------
(* The resolver's claims, checked under SpecIP *)

Waited(c) == c.joined # 0

(* C7: single-flight mutual exclusion.  Whatever the interleaving of the    *)
(* callers and the timer, at most one call has an outbound lookup in flight, *)
(* and a call that arrived while a refresh was in flight issues no lookup.   *)
C7_SingleFlight ==
  /\ Cardinality({s \in CallSlots : InFlight(calls[s])}) <= 1
  /\ \A s \in CallSlots : Waited(calls[s]) => calls[s].issued = 0

(* two callers and the timer's call wait on the one refresh in flight *)
C7_Witness ==
  /\ \E s \in CallSlots : InFlight(calls[s])
  /\ Cardinality({s \in CallSlots : calls[s].pc = "waiting"}) >= 2
  /\ \E s \in CallSlots : calls[s].pc = "waiting" /\ calls[s].kind = "timer"

(* C8: single-flight shared result.  A call that arrived while a refresh was *)
(* in flight resolves with what that same refresh wrote: it returns the      *)
(* addresses the refreshing call returned, whatever refresh started between  *)
(* the clearing of the flag and the waiter's next poll.                      *)
C8_SharedResult ==
  \A s, q \in CallSlots :
    /\ Waited(calls[s]) /\ calls[s].pc = "done"
    /\ calls[q].refresh = calls[s].joined /\ calls[q].pc = "done"
    => /\ calls[s].ret.ipv4 = calls[q].ret.ipv4
       /\ calls[s].ret.ipv6 = calls[q].ret.ipv6

(* C9: the IPv4 fallback chain keeps the last known value.  The fallback is  *)
(* tried only after the primary failed; a refresh whose primary and fallback *)
(* lookups both failed leaves ipCache.ipv4 as it found it, and returns it.   *)
C9_FallbackKeepsLastKnown ==
  \A s \in CallSlots :
    /\ calls[s].pc = "fallback" => calls[s].issued = 2
    /\ calls[s].lost4 /\ calls[s].pc = "done" => calls[s].ret.ipv4 = calls[s].oldIpv4

(* C10: a fresh IP cache is served without I/O.  getPublicIP called with     *)
(* ipv4 present and now - lastCheck < ipRefreshInterval returns the cached   *)
(* ipv4 at once, issues no lookup and leaves the latch alone; called         *)
(* otherwise, it runs a refresh or waits for the one in flight.              *)
C10_FreshCacheServed ==
  \A s \in CallSlots :
    calls[s].kind = "getPublicIP" =>
      IF calls[s].fresh
      THEN /\ calls[s].pc = "done"
           /\ calls[s].ret.set /\ calls[s].ret.ipv4 = calls[s].seen4
           /\ calls[s].issued = 0
           /\ ~calls[s].latch
      ELSE calls[s].refresh # 0 \/ Waited(calls[s])

(* both cases happened: one call served from the fresh cache, one refreshing *)
C10_Witness ==
  /\ \E s \in CallSlots : calls[s].kind = "getPublicIP" /\ calls[s].fresh /\ calls[s].pc = "done"
  /\ \E s \in CallSlots : calls[s].kind = "getPublicIP" /\ ~calls[s].fresh /\ calls[s].seen4 # ""

----------------------------------------------------------------------------
(* The validation claims, checked under SpecValidation *)

(* the spec names an address record whose content is no address of its family *)
BadAddress(config) ==
  \/ config.type = "A" /\ ~isValidIPv4(config.content.s)
  \/ config.type = "AAAA" /\ ~isValidIPv6(config.content.s)

AddCalls(iv, i) ==
  LET IsAdd(c) == c.item = i /\ c.op = "add" IN SelectSeq(iv.calls, IsAdd)

(* C12: validation gating.  An A spec whose content is no valid IPv4 address, *)
(* or an AAAA spec whose content is no valid IPv6 address, is rejected by     *)
(* validateRecord, and createRecord posts no add call for it.                 *)
C12_ValidationGating ==
  \A p \in Slots : \A i \in 1..Len(inv[p].found) :
     BadAddress(inv[p].configs[i]) =>
        /\ ~validateRecord(inv[p].configs[i])
        /\ AddCalls(inv[p], i) = <<>>

(* C13: apex CNAME rejection.  createRecord for a CNAME spec whose name is    *)
(* the zone name raises a validation error and posts no add call.             *)
C13_ApexCnameRejected ==
  \A p \in Slots : \A i \in 1..Len(inv[p].found) :
     LET config == inv[p].configs[i] IN
     (config.type = "CNAME" /\ config.name = Zone) =>
        /\ ~validateRecord(config)
        /\ AddCalls(inv[p], i) = <<>>

----------------------------------------------------------------------------
(* The contracts of deleteRecord and createRecord, checked under Spec *)

DeleteCalls(iv) ==
  LET IsAnsweredDelete(c) == c.op = "delete" /\ c.resp # "pending" IN SelectSeq(iv.calls, IsAnsweredDelete)

(* C14: the contract of deleteRecord.  When the backend reports that the     *)
(* record is not in the zone, deleteRecord returns false without raising;    *)
(* when the backend answers ok it returns true and the cache no longer holds *)
(* the record; and it returns false only for the not-found condition, never  *)
(* for another backend error.                                                *)
C14_DeleteRecordContract ==
  \A p \in Slots :
     LET cs == DeleteCalls(inv[p]) IN
     \A k \in 1..Len(cs) :
        /\ (cs[k].resp = "error" /\ ~cs[k].held) => cs[k].ret = "false"
        /\ cs[k].resp = "ok" => cs[k].ret = "true" /\ cs[k].gone
        /\ cs[k].ret = "false" => ~cs[k].held

(* C15: backend error classification on create.  When the backend answers   *)
(* the add call with a non-ok status because the zone already holds the     *)
(* record, createRecord raises nothing and the item is reported as no       *)
(* mutation (not failed, not in the results); any other non-ok status makes *)
(* createRecord raise its API error.                                        *)
C15_CreateErrorClassification ==
  \A p \in Slots : \A i \in 1..Len(inv[p].outcome) :
     LET iv == inv[p]
         cs == AddCalls(iv, i)
     IN \A k \in 1..Len(cs) :
          cs[k].resp = "error" =>
             IF cs[k].held
             THEN iv.outcome[i].how # "failed" /\ ~Succeeded(iv, i)
             ELSE iv.outcome[i] = [how |-> "failed", err |-> CallError("add", "error")]

(* C16: unmanaged specs are excluded.  For a spec of the batch whose manage  *)
(* flag is off, batchEnsureRecords issues no backend call and does not put   *)
(* the spec in its results, whether or not the cache holds a matching record *)
C16_UnmanagedExcluded ==
  \A p \in Slots : \A i \in 1..Len(inv[p].found) :
     ~inv[p].configs[i].manage =>
        /\ ItemCalls(inv[p], i) = <<>>
        /\ \A k \in 1..Len(inv[p].results) : inv[p].results[k] # inv[p].configs[i]

----------------------------------------------------------------------------
(* Multi-value types, checked under SpecMultiValue *)

MultiValueTypes == {"TXT", "SRV", "CAA"}

(* C17: multi-value identity.  A batch of two TXT, SRV or CAA specs with the *)
(* same name and type and different content, every backend call of which was *)
(* answered ok, ends with both records in the cache, and no delete call made *)
(* for one of the two specs names the content of the other.                  *)
C17_MultiValueIdentity ==
  \A p \in Slots :
     LET iv == inv[p] IN
     ( /\ iv.pc = "done" /\ iv.clean /\ ~iv.thrown
       /\ Len(iv.configs) = 2
       /\ iv.configs[1].type \in MultiValueTypes
       /\ iv.configs[1].type = iv.configs[2].type
       /\ iv.configs[1].name = iv.configs[2].name
       /\ ~StrictEq(iv.configs[1].content, iv.configs[2].content) )
     => /\ CacheHolds(iv.configs[1])
        /\ CacheHolds(iv.configs[2])
        /\ \A k \in 1..Len(iv.calls) :
              LET c == iv.calls[k] IN
              (c.op = "delete" /\ c.item \in {1, 2})
                 => PayloadOf(c.form) # iv.configs[3 - c.item].content.s

----------------------------------------------------------------------------
(* The converter, checked under SpecConverter *)

(* C18: converter round trip.  For a canonical record of any supported type, *)
(* converting it to the wire format and converting the record the backend    *)
(* stores for that request back gives the same name, type, content and ttl.  *)
C18_ConverterRoundTrip ==
  \A p \in Slots :
     inv[p].pc = "back" =>
        LET record == desired[1]
            back == recordCache.records[1]
        IN /\ back.name = record.name
           /\ back.type = record.type
           /\ StrictEq(back.content, record.content)
           /\ back.ttl = record.ttl

----------------------------------------------------------------------------
(* Overlapping invocations, checked under SpecOverlap *)

MutationInFlight(iv) == iv.pc \in {"awaitAdd", "awaitDelete"}

(* C19: serialized mutations.  Whatever the interleaving of two invocations  *)
(* of batchEnsureRecords on the same provider, no two add or delete calls    *)
(* for the same name and type are in flight at the same time.                *)
C19_SerializedMutations ==
  \A p, q \in DOMAIN inv :
     (p # q /\ MutationInFlight(inv[p]) /\ MutationInFlight(inv[q]))
     => ~(inv[p].req.domain = inv[q].req.domain /\ inv[p].req.type = inv[q].req.type)

----------------------------------------------------------------------------
(* Read-your-write within one batch, checked under Spec *)

(* C20: read-your-write.  When createRecord or updateRecord has just         *)
(* returned, the cache holds a record with the spec's name, type and         *)
(* content; when deleteRecord returned true the cache holds no record of     *)
(* the deleted id; and a later item of the same batch that repeats a spec    *)
(* already created or updated by this batch (same name, type, content and    *)
(* ttl) causes no add and no delete call.                                    *)
C20_ReadYourWrite ==
  \A p \in Slots :
     LET iv == inv[p] IN
     /\ iv.returned # 0 => CacheHolds(iv.configs[iv.returned])
     /\ \A k \in 1..Len(iv.calls) :
           (iv.calls[k].op = "delete" /\ iv.calls[k].ret = "true") => iv.calls[k].gone
     /\ \A i, j \in 1..Len(iv.outcome) :
           (i < j /\ iv.configs[i] = iv.configs[j] /\ Succeeded(iv, i))
           => Mutations(ItemCalls(iv, j)) = <<>>

----------------------------------------------------------------------------
(* The cache refresh, checked under Spec *)

ListAnswer(iv, iw) == iw.calls[Len(iv.calls)].resp

(* C21: atomic refresh.  When the list call of refreshRecordCache is         *)
(* answered "ok", the cache afterwards holds exactly the converted records   *)
(* of the backend's answer, in its order, and lastUpdated is the time of the *)
(* answer; when the call is answered with another status or is rejected, the *)
(* cache (records and lastUpdated) is what it was.                           *)
C21_AtomicRefresh ==
  [][\A p \in Slots :
       (inv[p].pc \in {"awaitList", "awaitRefresh"} /\ inv'[p] # inv[p])
       => IF ListAnswer(inv[p], inv'[p]) = "ok"
          THEN /\ recordCache'.records =
                    [i \in 1..Len(backend) |-> convertToStandardFormat(backend[i])]
               /\ recordCache'.lastUpdated = now
          ELSE recordCache' = recordCache
    ]_vars

(* one invocation in which a refresh failed on a loaded cache and a later  *)
(* refresh succeeded, leaving a loaded cache                               *)
C21_Witness ==
  \E p \in Slots : \E j, k \in 1..Len(inv[p].calls) :
     /\ j < k
     /\ inv[p].calls[j].op = "refresh" /\ inv[p].calls[j].resp \in {"error", "throw"}
     /\ inv[p].calls[k].op = "refresh" /\ inv[p].calls[k].resp = "ok"
     /\ inv[p].found[inv[p].calls[k].item].size > 0
     /\ Len(recordCache.records) > 0
     /\ inv[p].pc = "done"

----------------------------------------------------------------------------
(* Type-specific fields, checked under SpecTypeFields *)

(* the spec asks for a priority other than the preference the zone's MX has *)
PriorityDiffers(existing, config) ==
  /\ existing.type = "MX"
  /\ config.priority # 0
  /\ config.priority # existing.original.rData.preference

----------------------------------------------------------------------------
(* Required fields, checked under SpecRequired *)

MissingField(config) ==
  config.type = "" \/ config.name = "" \/ ~Truthy(config.content)

(* the items whose processing ended in the step from iv to iw *)
EndedInStep(iv, iw) ==
  (IF iv.pc \in {"idle", "done"} THEN 1 ELSE Len(iv.outcome) + 1) .. Len(iw.outcome)

(* C23: required-field gating.  createRecord for a spec without name, type   *)
(* or content raises the validation Error and posts no add call (nor the     *)
(* refresh that follows one); called for a spec with no cached record it     *)
(* issues no backend call at all, and when it runs without a preceding await *)
(* the cache, records and lastUpdated, is what it was.                       *)
C23_RequiredFieldGating ==
  [][\A p \in Slots :
       LET iv == inv[p]
           iw == inv'[p]
       IN \A i \in EndedInStep(iv, iw) :
            MissingField(iw.configs[i]) =>
              /\ \A k \in 1..Len(iw.calls) :
                    iw.calls[k].item = i => iw.calls[k].op \notin {"add", "refresh"}
              /\ ~iw.found[i].hit =>
                    /\ ItemCalls(iw, i) = <<>>
                    /\ iw.outcome[i] = [how |-> "failed", err |-> ValidationError(iw.configs[i])]
                    /\ iv.pc \in {"idle", "done"} => recordCache' = recordCache
    ]_vars

(* an invocation on a loaded, fresh cache whose spec lacks a field: it ended *)
(* without a single backend call                                            *)
C23_Witness ==
  \E p \in Slots :
     /\ inv[p].pc = "done"
     /\ inv[p].calls = <<>>
     /\ Len(inv[p].outcome) >= 1
     /\ MissingField(inv[p].configs[1])
     /\ inv[p].outcome[1].how = "failed"
     /\ Len(recordCache.records) > 0

----------------------------------------------------------------------------
(* The ttl check, checked under SpecTtl *)

TtlError == "TTL must be a positive integer"

(* C24: ttl validation.  For a spec that is complete but for its ttl and has *)
(* no cached record, createRecord fails with the ttl Error exactly when a    *)
(* ttl is given and is zero or negative; with a positive ttl or none it does *)
(* not.                                                                      *)
C24_TtlValidation ==
  \A p \in Slots : \A i \in 1..Len(inv[p].outcome) :
     LET iv == inv[p]
         config == iv.configs[i]
     IN ~iv.found[i].hit =>
          ((iv.outcome[i].err = TtlError) <=> (config.ttlGiven /\ config.ttl <= 0))

----------------------------------------------------------------------------
(* The resolver's latch, checked under SpecIP *)

(* the call in slot s ran a refresh and returns in this step *)
RefreshReturns(s) ==
  calls'[s].refresh # 0 /\ calls[s].pc # "done" /\ calls'[s].pc = "done"

(* C25: latch release and non-fatal lookups.  The flag is set only while a   *)
(* refresh is running; and when a call that ran a refresh returns, whatever  *)
(* lookups failed, it returns the cache, the flag is false, and the cache    *)
(* holds the ipv4 and ipv6 the refresh resolved (an ipv4 also when the IPv6  *)
(* lookup failed).                                                           *)
C25_LatchRelease ==
  /\ [](ipUpdateInProgress => \E s \in CallSlots : InFlight(calls[s]))
  /\ [][\A s \in CallSlots :
          RefreshReturns(s) =>
            /\ ~ipUpdateInProgress'
            /\ calls'[s].ret = Snapshot(ipCache')
            /\ ipCache'.ipv4 = calls'[s].ipv4
            /\ ipCache'.ipv6 = calls'[s].ipv6
      ]_vars

(* one refresh returned after all three lookups failed, another after the *)
(* IPv4 lookup answered and the IPv6 lookup failed; the flag is clear     *)
C25_Witness ==
  /\ ~ipUpdateInProgress
  /\ \E s \in CallSlots :
        /\ calls[s].pc = "done" /\ calls[s].refresh # 0 /\ calls[s].ret.set
        /\ calls[s].lost4 /\ calls[s].ipv6 = "" /\ calls[s].issued = 3
  /\ \E s \in CallSlots :
        /\ calls[s].pc = "done" /\ calls[s].refresh # 0 /\ calls[s].ret.set
        /\ calls[s].ipv4 \in IPv4s /\ calls[s].ipv6 = "" /\ calls[s].issued >= 2
        /\ ipCache.ipv4 = calls[s].ipv4

----------------------------------------------------------------------------
(* The waiter, checked under SpecIPLive *)

(* C26: waiter liveness.  With every outbound lookup coming back and the     *)
(* poll timer running, a call of updatePublicIPs that found a refresh in     *)
(* progress eventually returns, whatever refreshes the timer and other       *)
(* callers start in the meantime.                                            *)
C26_WaiterLiveness ==
  \A s \in CallSlots : (calls[s].pc = "waiting") ~> (calls[s].pc = "done")

----------------------------------------------------------------------------
(* The cache after a delete, checked under SpecMultiValue *)

(* C27: the cache tracks the backend on delete.  When deleteRecord returns   *)
(* true, the cache afterwards is the cache before without exactly one        *)
(* record, the one whose delete request was sent, every other record kept    *)
(* in place (also records with the same derived id); when it returns false   *)
(* or the request is rejected, the cache is what it was.                     *)
C27_CacheTracksDelete ==
  [][\A p \in Slots :
       (inv[p].pc = "awaitDelete" /\ inv'[p] # inv[p])
       => LET before == recordCache.records
              sent == inv'[p].calls[Len(inv[p].calls)]
          IN IF sent.ret = "true"
             THEN \E j \in 1..Len(before) :
                     /\ convertToTechnitiumFormat(before[j]) = sent.form
                     /\ recordCache'.records = RemoveAt(before, j)
             ELSE recordCache' = recordCache
    ]_vars

====
